---------------------------- MODULE Spec2Model ----------------------------
(***************************************************************************)
(* The trip-data API of app.py as a state machine: a threaded Flask        *)
(* server whose worker threads run before_request (create_session), one    *)
(* route handler and teardown_request (close_session); the S3 bucket and   *)
(* the SQS FIFO queue the intake handlers write to; the trips table the    *)
(* query handlers read and an external ETL job fills.                      *)
(***************************************************************************)
EXTENDS Integers, Sequences, FiniteSets, Bags, TLC

(* ------------------------------ bounds -------------------------------- *)
\* worker threads serving requests concurrently
NumWorkers == 2
\* uuid4() calls the model follows
MaxUuid == 4
\* rows the ETL job loads into the trips table
MaxTrips == 2

(* ----------------------------- constants ------------------------------ *)
\* SQL NULL / Python None in a numeric column
NULL == -1
\* length of a calendar day in the unit of pickup_datetime
DayLen == 2

Workers == 1..NumWorkers

VARIABLES pc, local, sessions, store, queue, returned, nextUuid, trips, log

vars == <<pc, local, sessions, store, queue, returned, nextUuid, trips, log>>

NoLocal == [kind |-> "none"]
NoLog == [route |-> "none", status |-> 0, body |-> "none"]

(* ------------------------- secure_filename ---------------------------- *)
\* werkzeug's secure_filename over filenames written as sequences of
\* characters: path separators become blanks, runs of blanks one "_",
\* characters outside [A-Za-z0-9_.-] are dropped, "." and "_" are stripped
\* from both ends
RECURSIVE ReplaceSep(_)
ReplaceSep(s) ==
    IF s = <<>> THEN <<>>
    ELSE <<IF Head(s) = "/" THEN " " ELSE Head(s)>> \o ReplaceSep(Tail(s))

\* "_".join(s.split()): runs of blanks become one "_", none at either end
RECURSIVE JoinSplit(_, _, _)
JoinSplit(s, inword, any) ==
    IF s = <<>> THEN <<>>
    ELSE IF Head(s) = " " THEN JoinSplit(Tail(s), FALSE, any)
    ELSE (IF ~inword /\ any THEN <<"_">> ELSE <<>>) \o <<Head(s)>>
         \o JoinSplit(Tail(s), TRUE, TRUE)

RECURSIVE DropUnsafe(_)
DropUnsafe(s) ==
    IF s = <<>> THEN <<>>
    ELSE (IF Head(s) \in {"a", "b", "_", ".", "-"} THEN <<Head(s)>> ELSE <<>>)
         \o DropUnsafe(Tail(s))

RECURSIVE StripLeft(_)
StripLeft(s) ==
    IF s = <<>> THEN <<>>
    ELSE IF Head(s) \in {".", "_"} THEN StripLeft(Tail(s)) ELSE s

RECURSIVE StripRight(_)
StripRight(s) ==
    IF s = <<>> THEN <<>>
    ELSE IF s[Len(s)] \in {".", "_"} THEN StripRight(SubSeq(s, 1, Len(s) - 1))
    ELSE s

secure_filename(s) ==
    StripRight(StripLeft(DropUnsafe(JoinSplit(ReplaceSep(s), FALSE, FALSE))))

(* ------------------------------ values -------------------------------- *)
\* filenames a client may put on the uploaded file ("" when none is chosen)
FileNames == { <<>>, <<"a">>, <<".", "/", "a">> }

\* request.files of a POST /upload
Uploads == {[has_file |-> FALSE, filename |-> <<>>]}
           \cup {[has_file |-> TRUE, filename |-> f] : f \in FileNames}

NoKey == [token |-> 0, name |-> <<>>]
\* a key no upload ever produced
BogusKey == [token |-> 0, name |-> <<"b">>]

\* the keys a caller of /trigger_job can know: those /upload answered with,
\* and anything it makes up
KnownKeys == BagToSet(returned) \cup {BogusKey}

\* bodies of a POST /trigger_job
TriggerBodies == {[json |-> "malformed", s3_key |-> NoKey],
                  [json |-> "no_key", s3_key |-> NoKey]}
                 \cup {[json |-> "key", s3_key |-> k] : k \in KnownKeys}

(* --------------------------- uuid4, S3, SQS --------------------------- *)
\* uuid4(): a value no earlier call returned
uuid4 == nextUuid

\* unique_filename with a token generated once, not per call
unique_filename_fixed(filename) ==
    [token |-> 1, name |-> secure_filename(filename)]

unique_filename(filename) ==
    [token |-> uuid4, name |-> secure_filename(filename)]

\* a deduplication id derived from the storage key
MessageDeduplicationId_key(key) == key.token

MessageDeduplicationId(key) == uuid4

\* SQS FIFO send_message: a send whose deduplication id the queue has seen
\* is accepted but not delivered, and answers with the first message's id
send_message(q, key, dedup) ==
    IF \E i \in 1..Len(q) : q[i].dedup = dedup
    THEN [queue |-> q,
          id |-> (CHOOSE i \in 1..Len(q) : q[i].dedup = dedup)]
    ELSE [queue |-> Append(q, [s3_key |-> key, dedup |-> dedup,
                               id |-> Len(q) + 1]),
          id |-> Len(q) + 1]

MessageIds == {queue[i].id : i \in 1..Len(queue)}

(* ------------------------- session middleware ------------------------- *)
Init ==
    /\ pc = [r \in Workers |-> "idle"]
    /\ local = [r \in Workers |-> NoLocal]
    /\ sessions = {}
    /\ store = {}
    /\ queue = <<>>
    /\ returned = EmptyBag
    /\ nextUuid = 1
    /\ trips = EmptyBag
    /\ log = NoLog

\* before_request: g.db = SessionLocal()
create_session(r) ==
    /\ pc[r] = "idle"
    /\ pc' = [pc EXCEPT ![r] = "handler"]
    /\ sessions' = sessions \cup {r}
    /\ UNCHANGED <<local, store, queue, returned, nextUuid, trips, log>>

\* close_session removing the session only after a request without exception
close_session_leak(r, exception) ==
    /\ pc' = [pc EXCEPT ![r] = "idle"]
    /\ sessions' = IF exception THEN sessions ELSE sessions \ {r}
    /\ local' = [local EXCEPT ![r] = NoLocal]

\* teardown_request: SessionLocal.remove(), run when the request context of
\* r is popped, with the exception that left the handler (or None)
close_session(r, exception) ==
    /\ pc' = [pc EXCEPT ![r] = "idle"]
    /\ sessions' = sessions \ {r}
    /\ local' = [local EXCEPT ![r] = NoLocal]

\* the handler of r returns a response, or raises an HTTPException that
\* Flask renders itself (body "error_page"); the context is popped, and the
\* client receives the response
Respond(r, response) ==
    /\ close_session(r, FALSE)
    /\ log' = response

\* any other exception leaves the handler of r: Flask answers 500 with its
\* own page (body "unhandled"), and the teardown is handed the exception
Raise(r, response) ==
    /\ close_session(r, TRUE)
    /\ log' = response

(* ------------------------------- routes ------------------------------- *)
home(r) ==
    /\ pc[r] = "handler"
    /\ Respond(r, [route |-> "home", status |-> 200, body |-> "json"])
    /\ UNCHANGED <<store, queue, returned, nextUuid, trips>>

\* POST /graphql: get_json() raises BadRequest on a malformed body, outside
\* any try; graphql_sync reports a bad query as success = False
graphql_server(r) ==
    /\ pc[r] = "handler"
    /\ \E data \in {"malformed", "bad_query", "query"} :
         Respond(r, [route |-> "graphql", data |-> data,
                     status |-> IF data = "query" THEN 200 ELSE 400,
                     body |-> IF data = "malformed" THEN "error_page"
                              ELSE "json"])
    /\ UNCHANGED <<store, queue, returned, nextUuid, trips>>

UploadLog(up, key, status, body, puts, sends, id) ==
    [route |-> "upload", has_file |-> up.has_file, filename |-> up.filename,
     status |-> status, body |-> body, s3_key |-> key,
     sqs_message_id |-> id, s3_puts |-> puts, sqs_sends |-> sends]

\* upload_file without the check of the filename
upload_file_nocheck(r) ==
    /\ pc[r] = "handler"
    /\ \E up \in Uploads :
         IF ~up.has_file
         THEN /\ Respond(r, UploadLog(up, NoKey, 400, "error", 0, 0, 0))
              /\ UNCHANGED nextUuid
         ELSE /\ nextUuid <= MaxUuid
              /\ local' = [local EXCEPT ![r] =
                    [kind |-> "upload", up |-> up,
                     key |-> unique_filename(up.filename)]]
              /\ nextUuid' = nextUuid + 1
              /\ pc' = [pc EXCEPT ![r] = "s3_put"]
              /\ UNCHANGED <<sessions, log>>
    /\ UNCHANGED <<store, queue, returned, trips>>

\* POST /upload up to the S3 call: the two checks, then the storage key
upload_file(r) ==
    /\ pc[r] = "handler"
    /\ \E up \in Uploads :
         IF ~up.has_file \/ up.filename = <<>>
         THEN /\ Respond(r, UploadLog(up, NoKey, 400, "error", 0, 0, 0))
              /\ UNCHANGED nextUuid
         ELSE /\ nextUuid <= MaxUuid
              /\ local' = [local EXCEPT ![r] =
                    [kind |-> "upload", up |-> up,
                     key |-> unique_filename(up.filename)]]
              /\ nextUuid' = nextUuid + 1
              /\ pc' = [pc EXCEPT ![r] = "s3_put"]
              /\ UNCHANGED <<sessions, log>>
    /\ UNCHANGED <<store, queue, returned, trips>>

\* upload_fileobj with a failure of the S3 call swallowed
upload_fileobj_swallow(r) ==
    /\ pc[r] = "s3_put"
    /\ \E ok \in BOOLEAN :
         /\ store' = IF ok THEN store \cup {local[r].key} ELSE store
         /\ pc' = [pc EXCEPT ![r] = "sqs_send"]
         /\ UNCHANGED <<local, sessions, log>>
    /\ UNCHANGED <<queue, returned, nextUuid, trips>>

\* s3_client.upload_fileobj(file, S3_BUCKET, unique_filename)
upload_fileobj(r) ==
    /\ pc[r] = "s3_put"
    /\ \E ok \in BOOLEAN :
         IF ok
         THEN /\ store' = store \cup {local[r].key}
              /\ pc' = [pc EXCEPT ![r] = "sqs_send"]
              /\ UNCHANGED <<local, sessions, log>>
         ELSE /\ Respond(r, UploadLog(local[r].up, local[r].key, 500,
                                      "error", 1, 0, 0))
              /\ UNCHANGED store
    /\ UNCHANGED <<queue, returned, nextUuid, trips>>

\* upload_send deleting the object again when the send fails
upload_send_rollback(r) ==
    /\ pc[r] = "sqs_send"
    /\ nextUuid <= MaxUuid
    /\ nextUuid' = nextUuid + 1
    /\ \E ok \in BOOLEAN :
         LET key  == local[r].key
             sent == send_message(queue, key, MessageDeduplicationId(key))
         IN  IF ok
             THEN /\ queue' = sent.queue
                  /\ returned' = returned (+) SetToBag({key})
                  /\ Respond(r, UploadLog(local[r].up, key, 200, "json",
                                          1, 1, sent.id))
                  /\ UNCHANGED store
             ELSE /\ Respond(r, UploadLog(local[r].up, key, 500, "error",
                                          1, 1, 0))
                  /\ store' = store \ {key}
                  /\ UNCHANGED <<queue, returned>>
    /\ UNCHANGED trips

\* sqs_client.send_message(...) of /upload and the response
upload_send(r) ==
    /\ pc[r] = "sqs_send"
    /\ nextUuid <= MaxUuid
    /\ nextUuid' = nextUuid + 1
    /\ \E ok \in BOOLEAN :
         LET key  == local[r].key
             sent == send_message(queue, key, MessageDeduplicationId(key))
         IN  IF ok
             THEN /\ queue' = sent.queue
                  /\ returned' = returned (+) SetToBag({key})
                  /\ Respond(r, UploadLog(local[r].up, key, 200, "json",
                                          1, 1, sent.id))
             ELSE /\ Respond(r, UploadLog(local[r].up, key, 500, "error",
                                          1, 1, 0))
                  /\ UNCHANGED <<queue, returned>>
    /\ UNCHANGED <<store, trips>>

TriggerLog(data, status, body, sends, id) ==
    [route |-> "trigger_job", json |-> data.json, s3_key |-> data.s3_key,
     status |-> status, body |-> body, sqs_message_id |-> id,
     sqs_sends |-> sends]

\* POST /trigger_job: request.json and data['s3_key'] stand before the try
trigger_job(r) ==
    /\ pc[r] = "handler"
    /\ \E data \in TriggerBodies :
         CASE data.json = "malformed" ->
                /\ Respond(r, TriggerLog(data, 400, "error_page", 0, 0))
                /\ UNCHANGED <<queue, nextUuid>>
           [] data.json = "no_key" ->
                /\ Raise(r, TriggerLog(data, 500, "unhandled", 0, 0))
                /\ UNCHANGED <<queue, nextUuid>>
           [] data.json = "key" ->
                /\ nextUuid <= MaxUuid
                /\ nextUuid' = nextUuid + 1
                /\ \E ok \in BOOLEAN :
                     LET sent == send_message(queue, data.s3_key,
                                   MessageDeduplicationId(data.s3_key))
                     IN  IF ok
                         THEN /\ queue' = sent.queue
                              /\ Respond(r, TriggerLog(data, 200, "json", 1,
                                                       sent.id))
                         ELSE /\ Respond(r, TriggerLog(data, 500, "error",
                                                       1, 0))
                              /\ UNCHANGED queue
    /\ UNCHANGED <<store, returned, trips>>

\* the server of the intake pipeline: /upload and /trigger_job, with the
\* routes that touch neither the bucket, the queue nor the table
Next ==
    \E r \in Workers :
       \/ create_session(r)
       \/ upload_file(r)
       \/ upload_fileobj(r)
       \/ upload_send(r)
       \/ trigger_job(r)
       \/ graphql_server(r)
       \/ home(r)

Spec == Init /\ [][Next]_vars

(* --------------------------- the trips table -------------------------- *)
\* rows of trips (models.Trip): every column but the primary key is
\* nullable; a table is a bag of rows, the primary key left implicit
TripRows ==
    { [pickup_datetime |-> NULL, pickup_longitude |-> 1,
       pickup_latitude |-> 0, trip_duration |-> 6],
      [pickup_datetime |-> 2, pickup_longitude |-> 0,
       pickup_latitude |-> 0, trip_duration |-> 6],
      [pickup_datetime |-> 2, pickup_longitude |-> 1,
       pickup_latitude |-> 0, trip_duration |-> 6],
      [pickup_datetime |-> 3, pickup_longitude |-> 1,
       pickup_latitude |-> 1, trip_duration |-> NULL],
      [pickup_datetime |-> 4, pickup_longitude |-> 1,
       pickup_latitude |-> 0, trip_duration |-> 6] }

\* the external ETL job loads one row; a stats request between its second
\* and third query is marked as having seen the table change
etl_load ==
    /\ BagCardinality(trips) < MaxTrips
    /\ \E row \in TripRows : trips' = trips (+) SetToBag({row})
    /\ local' = [r \in Workers |->
                    IF pc[r] = "q_total_days"
                    THEN [local[r] EXCEPT !.stale = TRUE] ELSE local[r]]
    /\ UNCHANGED <<pc, sessions, store, queue, returned, nextUuid, log>>

\* the rows of B among `rows`, each as often as in B
Restrict(B, rows) == [row \in rows |-> B[row]]

\* count(*) over the rows of B among `rows`
RECURSIVE RowCount(_, _)
RowCount(B, rows) ==
    IF rows = {} THEN 0
    ELSE LET x == CHOOSE y \in rows : TRUE
         IN  B[x] + RowCount(B, rows \ {x})

\* sum(trip_duration) over the rows of B among `rows`
RECURSIVE DurationSum(_, _)
DurationSum(B, rows) ==
    IF rows = {} THEN 0
    ELSE LET x == CHOOSE y \in rows : TRUE
         IN  B[x] * x.trip_duration + DurationSum(B, rows \ {x})

(* ------------------------------ GET /trips ---------------------------- *)
\* request.args.get(name): the text of the parameter, or None
NoParam == "<none>"
Truthy(p) == p \notin {NoParam, ""}

\* Python float(text): the number, or ValueError
IsFloat(p) == p \in {"0", "1", "1.0"}
float(p) == CASE p = "0" -> 0 [] p = "1" -> 1 [] p = "1.0" -> 1 [] OTHER -> NULL

\* the database's cast of a text to a timestamp, or a DataError
IsTimestamp(p) == p \in {"T2", "T3", "T4"}
timestamp(p) == CASE p = "T2" -> 2 [] p = "T3" -> 3 [] p = "T4" -> 4
                  [] OTHER -> NULL

\* SQL BETWEEN: inclusive, and unknown (no match) on NULL
between(x, lo, hi) == x # NULL /\ lo <= x /\ x <= hi
\* SQL =: unknown (no match) on NULL
sql_eq(x, v) == x # NULL /\ x = v

\* query.filter(Trip.pickup_datetime.between(start_date, end_date))
filter_between(B, start_date, end_date) ==
    Restrict(B, {t \in DOMAIN B :
        between(t.pickup_datetime, timestamp(start_date), timestamp(end_date))})

\* query.filter(Trip.pickup_longitude == float(pickup_long))
filter_longitude(B, pickup_long) ==
    Restrict(B, {t \in DOMAIN B : sql_eq(t.pickup_longitude, float(pickup_long))})

\* query.filter(Trip.pickup_latitude == float(pickup_lat))
filter_latitude(B, pickup_lat) ==
    Restrict(B, {t \in DOMAIN B : sql_eq(t.pickup_latitude, float(pickup_lat))})

TripArgs ==
    [start_date : {NoParam, "", "T2"}, end_date : {NoParam, "T3", "bad"},
     pickup_long : {NoParam, "1.0", "x"}, pickup_lat : {NoParam, "0"}]

\* trips_query filtering by time as soon as one of the two dates is given
trips_query_either(args) ==
    LET q0 == trips
        q1 == IF Truthy(args.start_date) \/ Truthy(args.end_date)
              THEN filter_between(q0, args.start_date, args.end_date) ELSE q0
        q2 == IF Truthy(args.pickup_long)
              THEN filter_longitude(q1, args.pickup_long) ELSE q1
        q3 == IF Truthy(args.pickup_lat)
              THEN filter_latitude(q2, args.pickup_lat) ELSE q2
    IN  q3

\* the query get_trips builds, filter by filter
trips_query(args) ==
    LET q0 == trips
        q1 == IF Truthy(args.start_date) /\ Truthy(args.end_date)
              THEN filter_between(q0, args.start_date, args.end_date) ELSE q0
        q2 == IF Truthy(args.pickup_long)
              THEN filter_longitude(q1, args.pickup_long) ELSE q1
        q3 == IF Truthy(args.pickup_lat)
              THEN filter_latitude(q2, args.pickup_lat) ELSE q2
    IN  q3

\* what makes the try block of get_trips raise: float() on a text that is no
\* number, or the database refusing a timestamp
trips_raises(args) ==
    \/ Truthy(args.pickup_long) /\ ~IsFloat(args.pickup_long)
    \/ Truthy(args.pickup_lat) /\ ~IsFloat(args.pickup_lat)
    \/ /\ Truthy(args.start_date) /\ Truthy(args.end_date)
       /\ ~(IsTimestamp(args.start_date) /\ IsTimestamp(args.end_date))

get_trips(r) ==
    /\ pc[r] = "handler"
    /\ \E args \in TripArgs :
         IF ~trips_raises(args)
         THEN Respond(r, [route |-> "trips", args |-> args, status |-> 200,
                          body |-> "json", data |-> trips_query(args)])
         ELSE Respond(r, [route |-> "trips", args |-> args, status |-> 500,
                          body |-> "error", data |-> EmptyBag])
    /\ UNCHANGED <<store, queue, returned, nextUuid, trips>>

(* --------------------------- GET /trips/stats ------------------------- *)
\* date_trunc('day', t); NULL stays NULL
date_trunc(t) == IF t = NULL THEN NULL ELSE t - (t % DayLen)

\* func.avg(Trip.trip_duration): NULL over no rows
avg_duration(B) ==
    LET rows == {x \in DOMAIN B : x.trip_duration # NULL}
    IN  IF rows = {} THEN NULL
        \* the durations of TripRows make every mean a whole number
        ELSE DurationSum(B, rows) \div RowCount(B, rows)

\* GROUP BY day: one entry per value of the day, NULL among them
trips_per_day(B) ==
    {[date |-> d,
      total_trips |-> RowCount(B, {x \in DOMAIN B :
                                    date_trunc(x.pickup_datetime) = d})] :
        d \in {date_trunc(x.pickup_datetime) : x \in DOMAIN B}}

\* total_days without DISTINCT: count(day)
total_days_rows(B) ==
    RowCount(B, {x \in DOMAIN B : x.pickup_datetime # NULL})

\* count(distinct day): NULL is not counted
total_days(B) ==
    Cardinality({date_trunc(x.pickup_datetime) : x \in DOMAIN B} \ {NULL})

StatsError == [route |-> "stats", status |-> 500, body |-> "error",
               average_trip_duration |-> NULL, total_days |-> 0,
               trips_per_day |-> {}, stale |-> FALSE]

\* first query of get_trip_stats
stats_avg(r) ==
    /\ pc[r] = "handler"
    /\ \E db_ok \in BOOLEAN :
         IF db_ok
         THEN /\ pc' = [pc EXCEPT ![r] = "q_per_day"]
              /\ local' = [local EXCEPT ![r] =
                    [kind |-> "stats", avg |-> avg_duration(trips),
                     per_day |-> {}, stale |-> FALSE]]
              /\ UNCHANGED <<sessions, log>>
         ELSE Respond(r, StatsError)
    /\ UNCHANGED <<store, queue, returned, nextUuid, trips>>

\* second query
stats_per_day(r) ==
    /\ pc[r] = "q_per_day"
    /\ \E db_ok \in BOOLEAN :
         IF db_ok
         THEN /\ pc' = [pc EXCEPT ![r] = "q_total_days"]
              /\ local' = [local EXCEPT ![r].per_day = trips_per_day(trips)]
              /\ UNCHANGED <<sessions, log>>
         ELSE Respond(r, StatsError)
    /\ UNCHANGED <<store, queue, returned, nextUuid, trips>>

\* third query and the response
stats_total_days(r) ==
    /\ pc[r] = "q_total_days"
    /\ \E db_ok \in BOOLEAN :
         IF db_ok
         THEN Respond(r, [route |-> "stats", status |-> 200, body |-> "json",
                          average_trip_duration |-> local[r].avg,
                          total_days |-> total_days(trips),
                          trips_per_day |-> local[r].per_day,
                          stale |-> local[r].stale])
         ELSE Respond(r, StatsError)
    /\ UNCHANGED <<store, queue, returned, nextUuid, trips>>

\* GET /trips served while the ETL job loads the table
TripsNext ==
    \/ etl_load
    \/ \E r \in Workers :
          \/ create_session(r)
          \/ get_trips(r)

SpecTrips == Init /\ [][TripsNext]_vars

\* GET /trips/stats served while the ETL job loads the table
StatsNext ==
    \/ etl_load
    \/ \E r \in Workers :
          \/ create_session(r)
          \/ stats_avg(r)
          \/ stats_per_day(r)
          \/ stats_total_days(r)

SpecStats == Init /\ [][StatsNext]_vars

(* ------------------------------- claims ------------------------------- *)
\* the step that ends the request of r: its response is log'
Ends(r) == pc[r] # "idle" /\ pc'[r] = "idle"

QueueKeys == {queue[i].s3_key : i \in 1..Len(queue)}

\* C1, as stated: every storage key in a queue message is in the store (the
\* store never loses an object, so it was there before the send)
C1_WriteBeforeNotify == \A i \in 1..Len(queue) : queue[i].s3_key \in store

\* C1, amended: whenever /upload sends a message, the key it carries is
\* already in the store
C1_UploadWriteBeforeNotify ==
    [][\A r \in Workers :
         (pc[r] = "sqs_send" /\ Ends(r) /\ queue' # queue) =>
            /\ Len(queue') = Len(queue) + 1
            /\ queue'[Len(queue')].s3_key = local[r].key
            /\ local[r].key \in store]_vars

C1_Witness ==
    /\ log.route = "upload" /\ log.status = 200
    /\ log.s3_key \in store
    /\ log.s3_key \in QueueKeys

\* C2: when /upload ends after its queue send failed, the answer is 500 with
\* an {error} body, one send was made, and the object is in the store with
\* no message referencing it; no upload makes more than one send
C2_SendFailureLeavesOrphan ==
    [][\A r \in Workers :
         (pc[r] = "sqs_send" /\ Ends(r)) =>
            /\ log'.sqs_sends = 1
            /\ Len(queue') <= Len(queue) + 1
            /\ (queue' = queue) =>
                  /\ log'.status = 500 /\ log'.body = "error"
                  /\ local[r].key \in store'
                  /\ \A i \in 1..Len(queue') :
                        queue'[i].s3_key # local[r].key]_vars

C2_Witness ==
    /\ log.route = "upload" /\ log.status = 500
    /\ log.s3_puts = 1 /\ log.sqs_sends = 1
    /\ log.s3_key \in store
    /\ log.s3_key \notin QueueKeys

\* C3: an /upload without a file field, or with an empty filename, ends
\* straight from the handler's checks with 400 and an {error} body, the
\* store and the queue untouched
C3_MissingFileIs400 ==
    [][\A r \in Workers :
         (Ends(r) /\ log'.route = "upload"
            /\ (~log'.has_file \/ log'.filename = <<>>)) =>
            /\ pc[r] = "handler"
            /\ log'.status = 400 /\ log'.body = "error"
            /\ store' = store /\ queue' = queue
            /\ nextUuid' = nextUuid]_vars

C3_Witness ==
    /\ log.route = "upload" /\ log.has_file /\ log.filename = <<>>
    /\ log.status = 400
    /\ store # {}

\* C4, as stated: a /trigger_job body without s3_key is answered 400 with an
\* {error} body, and nothing is sent
C4_MissingKeyIs400 ==
    (log.route = "trigger_job" /\ log.json = "no_key") =>
        /\ log.status = 400 /\ log.body = "error"
        /\ log.sqs_sends = 0

\* C5, as stated: no request ends with an exception that left its handler
\* uncaught, answered by the framework instead of the handler's JSON error
\* envelope
C5_NoExceptionLeavesHandler ==
    (log.route # "none" /\ log.status >= 500) => log.body = "error"

\* C6: every successful send of /upload and /trigger_job adds a message
\* whose deduplication id and message id no earlier message had
C6_FreshDeduplicationId ==
    [][\A r \in Workers :
         (Ends(r) /\ log'.route \in {"upload", "trigger_job"}
            /\ log'.status = 200) =>
            /\ Len(queue') = Len(queue) + 1
            /\ queue'[Len(queue')].s3_key = log'.s3_key
            /\ queue'[Len(queue')].id = log'.sqs_message_id
            /\ log'.sqs_message_id \notin MessageIds
            /\ \A i \in 1..Len(queue) :
                  queue[i].dedup # queue'[Len(queue')].dedup]_vars

C6_Witness ==
    /\ log.route = "trigger_job" /\ log.status = 200
    /\ log.s3_key \in BagToSet(returned)
    /\ \E i \in 1..Len(queue) :
          /\ queue[i].s3_key = log.s3_key
          /\ queue[i].id # log.sqs_message_id

\* C7: the S3 write of an upload creates an object under a key the store
\* did not hold; a successful upload returns that key, which no earlier
\* upload returned, made of a token and the sanitized filename, and adds
\* its own message for it
C7_UniqueKeys ==
    [][\A r \in Workers :
         /\ (pc[r] = "s3_put" /\ pc'[r] = "sqs_send") =>
               /\ local[r].key \notin store
               /\ store' = store \cup {local[r].key}
         /\ (pc[r] = "sqs_send" /\ Ends(r) /\ log'.status = 200) =>
               /\ log'.s3_key = local[r].key
               /\ log'.s3_key.name = secure_filename(log'.filename)
               /\ log'.s3_key.token \in 1..(nextUuid - 1)
               /\ log'.s3_key \notin BagToSet(returned)
               /\ log'.s3_key \in store
               /\ Len(queue') = Len(queue) + 1
               /\ queue'[Len(queue')].s3_key = log'.s3_key]_vars

\* two uploads of the same filename in flight at once, each with its object
C7_Witness ==
    \E r1, r2 \in Workers :
       /\ r1 # r2
       /\ pc[r1] = "sqs_send" /\ pc[r2] = "sqs_send"
       /\ local[r1].up = local[r2].up
       /\ local[r1].key # local[r2].key
       /\ {local[r1].key, local[r2].key} \subseteq store
       /\ BagCardinality(returned) >= 1

\* C8: a worker holds a session exactly while it serves a request
C8_SessionScopedToRequest ==
    \A r \in Workers : (r \in sessions) <=> (pc[r] # "idle")

C8_Witness ==
    /\ log.body = "unhandled"
    /\ sessions = {}
    /\ \A r \in Workers : pc[r] = "idle"

\* the filters of GET /trips as the interface states them
Supplied(p) == p # NoParam /\ p # ""
Matches(t, args) ==
    /\ (Supplied(args.start_date) /\ Supplied(args.end_date)) =>
          /\ t.pickup_datetime # NULL
          /\ timestamp(args.start_date) <= t.pickup_datetime
          /\ t.pickup_datetime <= timestamp(args.end_date)
    /\ Supplied(args.pickup_long) =>
          t.pickup_longitude = float(args.pickup_long)
    /\ Supplied(args.pickup_lat) =>
          t.pickup_latitude = float(args.pickup_lat)

\* C9: a successful GET /trips returns exactly the rows of the table that
\* satisfy every filter in effect
C9_TripsFiltered ==
    [][\A r \in Workers :
         (Ends(r) /\ log'.route = "trips" /\ log'.status = 200) =>
            /\ DOMAIN log'.data = {t \in DOMAIN trips : Matches(t, log'.args)}
            /\ \A t \in DOMAIN log'.data : log'.data[t] = trips[t]]_vars

C9_Witness ==
    /\ log.route = "trips" /\ log.status = 200
    /\ Supplied(log.args.start_date) /\ ~Supplied(log.args.end_date)
    /\ Supplied(log.args.pickup_long)
    /\ BagCardinality(log.data) >= 1
    /\ BagCardinality(log.data) < BagCardinality(trips)

DatedEntries(per_day) == {e \in per_day : e.date # NULL}

\* C10, as stated: over a table that does not change during the request,
\* total_days is the number of entries of trips_per_day
C10_TotalDaysIsEntryCount ==
    (log.route = "stats" /\ log.status = 200 /\ ~log.stale) =>
        log.total_days = Cardinality(log.trips_per_day)

\* C10, amended: total_days is the number of entries of trips_per_day with
\* a date; there is at most one entry without (the rows with no pickup
\* timestamp); rows loaded during the request can only raise total_days
C10_TotalDaysIsDatedEntryCount ==
    (log.route = "stats" /\ log.status = 200) =>
        /\ ~log.stale =>
              log.total_days = Cardinality(DatedEntries(log.trips_per_day))
        /\ log.total_days >= Cardinality(DatedEntries(log.trips_per_day))
        /\ Cardinality(log.trips_per_day)
              <= Cardinality(DatedEntries(log.trips_per_day)) + 1

C10_Witness ==
    /\ log.route = "stats" /\ log.status = 200 /\ ~log.stale
    /\ \E e \in log.trips_per_day : e.date = NULL
    /\ log.total_days = 1

====
